---- MODULE Spec2Model ----
(***************************************************************************)
(* MoinMoin nowiki converter (src/MoinMoin/converter/nowiki.py).           *)
(*                                                                         *)
(* A document tree is a nested value.  Python strings are sequences of     *)
(* one-character strings, so that rstrip, startswith, split and join are   *)
(* computed character by character.  Python's None is the record None, a   *)
(* present string s is Some(s).                                            *)
(*                                                                         *)
(* The developer menu (src/make.py) is a second state machine, MenuSpec,   *)
(* over the variables fs and last.                                         *)
(***************************************************************************)
EXTENDS Integers, Sequences, FiniteSets, TLC

\* ------------------------------------------------------------------ bounds
MaxDirLen == 4
MaxBodyLen == 3
MaxNest == 2
MaxCalls == 2

\* ------------------------------------------------------- string constants
s_empty == << >>
s_sentinel == <<"#", "!">>
s_space == <<" ">>
s_newline == <<"\n">>
s_semicolon == <<";">>
s_comma == <<",">>
s_slash == <<"/">>
s_quote == <<"\"">>
s_marker == <<"3">>
s_highlight == <<"h", "i", "g", "h", "l", "i", "g", "h", "t">>
s_diff == <<"d", "i", "f", "f">>
s_cplusplus == <<"c", "p", "l", "u", "s", "p", "l", "u", "s">>
s_python == <<"p", "y", "t", "h", "o", "n">>
s_java == <<"j", "a", "v", "a">>
s_pascal == <<"p", "a", "s", "c", "a", "l">>
s_irc == <<"i", "r", "c">>
s_text == <<"t", "e", "x", "t">>
s_csv == <<"c", "s", "v">>
s_text_csv == <<"t", "e", "x", "t", "/", "c", "s", "v">>
s_wiki == <<"w", "i", "k", "i">>
s_moin_wiki == <<"t", "e", "x", "t", "/", "x", ".", "m", "o", "i", "n", ".", "w", "i", "k", "i">>
s_creole == <<"c", "r", "e", "o", "l", "e">>
s_moin_creole == <<"t", "e", "x", "t", "/", "x", ".", "m", "o", "i", "n", ".", "c", "r", "e", "o", "l", "e">>
s_rst == <<"r", "s", "t">>
s_x_rst == <<"t", "e", "x", "t", "/", "x", "-", "r", "s", "t">>
s_docbook == <<"d", "o", "c", "b", "o", "o", "k">>
s_docbook_xml == <<"a", "p", "p", "l", "i", "c", "a", "t", "i", "o", "n", "/", "d", "o", "c", "b", "o", "o", "k", "+", "x", "m", "l">>
s_markdown == <<"m", "a", "r", "k", "d", "o", "w", "n">>
s_x_markdown == <<"t", "e", "x", "t", "/", "x", "-", "m", "a", "r", "k", "d", "o", "w", "n">>
s_mediawiki == <<"m", "e", "d", "i", "a", "w", "i", "k", "i">>
s_x_mediawiki == <<"t", "e", "x", "t", "/", "x", "-", "m", "e", "d", "i", "a", "w", "i", "k", "i">>
s_x_python == <<"t", "e", "x", "t", "/", "x", "-", "p", "y", "t", "h", "o", "n">>
s_bogus == <<"b", "o", "g", "u", "s", "-", "f", "o", "r", "m", "a", "t">>
s_notreal == <<"n", "o", "t", "-", "a", "-", "r", "e", "a", "l", "-", "l", "a", "n", "g", "u", "a", "g", "e">>
s_error == <<"e", "r", "r", "o", "r">>
s_table_cls == <<"m", "o", "i", "n", "-", "c", "s", "v", "-", "t", "a", "b", "l", "e", " ", "m", "o", "i", "n", "-", "s", "o", "r", "t", "a", "b", "l", "e">>
s_CSV == <<"C", "S", "V">>
s_Wiki == <<"W", "i", "k", "i">>
s_Highlight == <<"H", "i", "g", "h", "l", "i", "g", "h", "t">>
s_cs == <<"c", "s">>
s_csvx == <<"c", "s", "v", "x">>
s_a_b == <<"a", "/", "b">>
s_hello == <<"h", "e", "l", "l", "o">>
s_msg_head == <<"D", "e", "f", "a", "u", "l", "t", "i", "n", "g", " ", "t", "o", " ", "p", "l", "a", "i", "n", " ", "t", "e", "x", "t", " ", "d", "u", "e", " ", "t", "o", " ", "i", "n", "v", "a", "l", "i", "d", " ", "a", "r", "g", "u", "m", "e", "n", "t", "s", ":", " ", "\"">>

\* ------------------------------------------------------ string operations
None == [some |-> FALSE, v |-> << >>]
Some(s) == [some |-> TRUE, v |-> s]

\* The characters unicode.rstrip() removes (unicode.isspace() in Python 2.7,
\* Unicode 5.2.0).  A character that TLA+ cannot write stands as its escape.
c_vt == "\\x0b"
c_nbsp == "\\xa0"
Whitespace ==
    {" ", "\t", "\n", "\r", "\f", c_vt, "\\x1c", "\\x1d", "\\x1e", "\\x1f",
     "\\x85", c_nbsp, "\\u1680", "\\u180e", "\\u2000", "\\u2001", "\\u2002",
     "\\u2003", "\\u2004", "\\u2005", "\\u2006", "\\u2007", "\\u2008",
     "\\u2009", "\\u200a", "\\u2028", "\\u2029", "\\u202f", "\\u205f",
     "\\u3000"}

RECURSIVE rstrip(_)
rstrip(s) ==
    IF Len(s) > 0 /\ s[Len(s)] \in Whitespace
    THEN rstrip(SubSeq(s, 1, Len(s) - 1))
    ELSE s

startswith(s, prefix) ==
    /\ Len(s) >= Len(prefix)
    /\ SubSeq(s, 1, Len(prefix)) = prefix

\* index of the leftmost occurrence of sep in s, 0 when there is none
find(s, sep) ==
    LET hits == {i \in 1..(Len(s) - Len(sep) + 1) : SubSeq(s, i, i + Len(sep) - 1) = sep}
    IN IF hits = {} THEN 0 ELSE CHOOSE i \in hits : \A j \in hits : i <= j

\* str.split(sep) for a non-empty sep
RECURSIVE split(_, _)
split(s, sep) ==
    LET i == find(s, sep)
    IN IF i = 0
       THEN <<s>>
       ELSE <<SubSeq(s, 1, i - 1)>> \o split(SubSeq(s, i + Len(sep), Len(s)), sep)

\* str.split(sep, 1)
split1(s, sep) ==
    LET i == find(s, sep)
    IN IF i = 0
       THEN <<s>>
       ELSE <<SubSeq(s, 1, i - 1), SubSeq(s, i + Len(sep), Len(s))>>

\* sep.join(parts)
RECURSIVE join(_, _)
join(sep, parts) ==
    IF Len(parts) = 0 THEN << >>
    ELSE IF Len(parts) = 1 THEN parts[1]
    ELSE parts[1] \o sep \o join(sep, Tail(parts))

\* iterating a Python string yields its characters
chars(s) == [i \in 1..Len(s) |-> <<s[i]>>]

\* str.replace(old, new)
replace(s, old, new) == join(new, split(s, old))

\* ------------------------------------------------------------------- tree
\* a text child is a node record with tag "#text"; cls is the class attribute
\* (the empty string when the element has none)
Txt(s) == [tag |-> "#text", cls |-> << >>, text |-> s, children |-> << >>]
El(tag, cls, children) == [tag |-> tag, cls |-> cls, text |-> << >>, children |-> children]
IsNode(c) == c.tag # "#text"

NowikiTag == "nowiki"

RECURSIVE NodeAt(_, _)
NodeAt(t, p) == IF p = << >> THEN t ELSE NodeAt(t.children[Head(p)], Tail(p))

\* mutant: the expanded element is put in place of the placeholder
RECURSIVE SetChildren_replaces_node(_, _, _)
SetChildren_replaces_node(t, p, kids) ==
    IF p = << >>
    THEN [t EXCEPT !.children = kids, !.tag = "div"]
    ELSE [t EXCEPT !.children[Head(p)] = SetChildren_replaces_node(t.children[Head(p)], Tail(p), kids)]

RECURSIVE SetChildren(_, _, _)
SetChildren(t, p, kids) ==
    IF p = << >>
    THEN [t EXCEPT !.children = kids]
    ELSE [t EXCEPT !.children[Head(p)] = SetChildren(t.children[Head(p)], Tail(p), kids)]

RECURSIVE Paths(_)
Paths(t) ==
    {<< >>} \cup UNION {{<<i>> \o q : q \in Paths(t.children[i])} : i \in 1..Len(t.children)}

NowikiPaths(t) == {p \in Paths(t) : NodeAt(t, p).tag = NowikiTag}

\* number of proper ancestors of the node at p that are nowiki elements
Nesting(t, p) ==
    Cardinality({k \in 0..(Len(p) - 1) : NodeAt(t, SubSeq(p, 1, k)).tag = NowikiTag})

\* ---------------------------------------------------------- collaborators
\* pygments' lexer registry: the aliases and mimetypes the inputs use.
\* A result of None stands for ClassNotFound.
LexerNames == {s_python, s_diff, s_java, s_pascal, s_irc, s_text}

get_lexer_by_name(hint) ==
    IF hint.some /\ hint.v \in LexerNames THEN Some(hint.v) ELSE None

get_lexer_for_mimetype(hint) ==
    IF hint.some /\ hint.v = s_x_python THEN Some(s_python) ELSE None

\* pygments.highlight(content, lexer, TreeFormatter(), blockcode): the tokens
\* of content, rendered under the class of the lexer that produced them
highlight(content, lexer) == <<El("span", lexer, <<Txt(content)>>)>>

\* TableMixin.build_dom_table(rows, head=head, cls=cls)
table_row(cells) ==
    El("table-row", << >>, [j \in 1..Len(cells) |-> El("table-cell", << >>, <<Txt(cells[j])>>)])

build_dom_table(rows, head, cls) ==
    El("table", cls,
       << El("table-header", << >>, <<table_row(head)>>),
          El("table-body", << >>, [i \in 1..Len(rows) |-> table_row(rows[i])]) >>)

RawPlaceholder(directive, body) ==
    El(NowikiTag, << >>, <<Txt(s_marker), El("nowiki-args", << >>, <<Txt(directive)>>), Txt(body)>>)

\* directives of the placeholders a sub-parser may emit for a nested block
NestedDirectives ==
    {s_sentinel \o s_csv, s_sentinel \o s_wiki, s_sentinel \o s_python, s_sentinel \o s_bogus}

\* what a sub-parser makes of content: a sub-document, a sub-document holding
\* a new placeholder (while nested is below MaxNest), or a failure
SubDocuments(content, cls, nested) ==
    {El("body", cls, <<El("p", << >>, <<Txt(content)>>)>>)}
    \cup (IF nested < MaxNest
          THEN {El("body", cls, <<El("p", << >>, <<Txt(content)>>), RawPlaceholder(d, content)>>) :
                   d \in NestedDirectives}
          ELSE {})

\* parse_block of moinwiki_in / creole_in returns the body element
parse_block(content, cls, nested) ==
    {[ok |-> TRUE, root |-> b] : b \in SubDocuments(content, cls, nested)}
    \cup {[ok |-> FALSE, root |-> Txt(<< >>)]}

\* the rst, docbook, markdown and mediawiki converters return a page element
convert(content, nested) ==
    {[ok |-> TRUE, root |-> El("page", << >>, <<b>>)] : b \in SubDocuments(content, << >>, nested)}
    \cup {[ok |-> FALSE, root |-> Txt(<< >>)]}

NoParser == {[ok |-> TRUE, root |-> Txt(<< >>)]}

\* ------------------------------------------------------------ the handler
\* mutant: the admonition is built but does not reach the children of elem
invalid_args_detached(children, nowiki_args) == children

\* invalid_args: elem.append(admonition), on the children of elem
invalid_args(children, nowiki_args) ==
    LET message == s_msg_head \o join(s_space, chars(nowiki_args)) \o s_quote
        admonition == El("div", s_error, <<El("p", << >>, <<Txt(message)>>)>>)
    IN Append(children, admonition)

\* mutant: a bare sentinel is taken for a directive (>= 2 for > 2)
ParseDirective_bare_sentinel(nowiki_args) ==
    IF startswith(nowiki_args, s_sentinel) /\ Len(nowiki_args) >= 2
    THEN LET arguments == split1(SubSeq(nowiki_args, 3, Len(nowiki_args)), s_space)
         IN [name |-> Some(arguments[1]),
             args |-> IF Len(arguments) > 1 THEN Some(arguments[2]) ELSE None]
    ELSE [name |-> None, args |-> None]

ParseDirective(nowiki_args) ==
    IF startswith(nowiki_args, s_sentinel) /\ Len(nowiki_args) > 2
    THEN LET arguments == split1(SubSeq(nowiki_args, 3, Len(nowiki_args)), s_space)
         IN [name |-> Some(arguments[1]),
             args |-> IF Len(arguments) > 1 THEN Some(arguments[2]) ELSE None]
    ELSE [name |-> None, args |-> None]

LegacyNames == {s_diff, s_cplusplus, s_python, s_java, s_pascal, s_irc}

\* mutant: a name matches when it is a prefix of a table entry
in_prefix(name, names) == name.some /\ \E n \in names : startswith(n, name.v)

\* nowiki_name in (...)
in(name, names) == name.some /\ name.v \in names

\* mutant: the legacy name is not moved into the arguments
AliasRewrite_keeps_args(d) ==
    IF in(d.name, LegacyNames)
    THEN [name |-> Some(s_highlight), args |-> d.args]
    ELSE d

AliasRewrite(d) ==
    IF in(d.name, LegacyNames)
    THEN [name |-> Some(s_highlight), args |-> d.name]
    ELSE d

\* one call into the lexer registry: which function, with which argument
Lookup(fn, arg) == [fn |-> fn, arg |-> arg]

\* mutant: a doubly unresolved hint falls back to plain text without a diagnostic
ResolveLexer_silent(nowiki_args_old) ==
    LET byname == get_lexer_by_name(nowiki_args_old)
        bymime == get_lexer_for_mimetype(nowiki_args_old)
    IN IF byname.some THEN [lexer |-> byname, diag |-> FALSE, tried |-> <<Lookup("name", nowiki_args_old)>>]
       ELSE IF bymime.some
            THEN [lexer |-> bymime, diag |-> FALSE, tried |-> <<Lookup("name", nowiki_args_old), Lookup("mimetype", nowiki_args_old)>>]
            ELSE [lexer |-> Some(s_text), diag |-> FALSE,
                  tried |-> <<Lookup("name", nowiki_args_old), Lookup("mimetype", nowiki_args_old), Lookup("name", Some(s_text))>>]

\* mutant: the mimetype lookup is made before the name lookup
ResolveLexer_mimetype_first(nowiki_args_old) ==
    LET byname == get_lexer_by_name(nowiki_args_old)
        bymime == get_lexer_for_mimetype(nowiki_args_old)
    IN IF bymime.some THEN [lexer |-> bymime, diag |-> FALSE, tried |-> <<Lookup("mimetype", nowiki_args_old)>>]
       ELSE IF byname.some
            THEN [lexer |-> byname, diag |-> FALSE, tried |-> <<Lookup("mimetype", nowiki_args_old), Lookup("name", nowiki_args_old)>>]
            ELSE [lexer |-> Some(s_text), diag |-> TRUE,
                  tried |-> <<Lookup("mimetype", nowiki_args_old), Lookup("name", nowiki_args_old), Lookup("name", Some(s_text))>>]

\* the try/except of the highlight branch
ResolveLexer(nowiki_args_old) ==
    LET byname == get_lexer_by_name(nowiki_args_old)
        bymime == get_lexer_for_mimetype(nowiki_args_old)
    IN IF byname.some THEN [lexer |-> byname, diag |-> FALSE, tried |-> <<Lookup("name", nowiki_args_old)>>]
       ELSE IF bymime.some
            THEN [lexer |-> bymime, diag |-> FALSE, tried |-> <<Lookup("name", nowiki_args_old), Lookup("mimetype", nowiki_args_old)>>]
            ELSE [lexer |-> Some(s_text), diag |-> TRUE,
                  tried |-> <<Lookup("name", nowiki_args_old), Lookup("mimetype", nowiki_args_old), Lookup("name", Some(s_text))>>]

Blockcode(content, lexer) == El("blockcode", s_highlight, highlight(content, lexer))

\* mutant: the separator argument is ignored
CsvSep_default_only(args) == s_semicolon

\* nowiki_args_old or u';'
CsvSep(args) == IF args.some /\ args.v # << >> THEN args.v ELSE s_semicolon

\* mutant: an empty first line gives a header without cells
CsvHead_drops_empty(content, sep) ==
    IF split(content, s_newline)[1] = << >> THEN << >> ELSE split(split(content, s_newline)[1], sep)

CsvHead(content, sep) == split(split(content, s_newline)[1], sep)

CsvRows(content, sep) ==
    LET lines == split(content, s_newline)
    IN [i \in 1..(Len(lines) - 1) |-> split(lines[i + 1], sep)]

CsvTable(content, args) ==
    LET sep == CsvSep(args)
    IN build_dom_table(CsvRows(content, sep), CsvHead(content, sep), s_table_cls)

\* the branch of handle_nowiki whose condition is the first to hold
Dispatch(name) ==
    IF name = Some(s_highlight) THEN "highlight"
    ELSE IF in(name, {s_csv, s_text_csv}) THEN "csv"
    ELSE IF in(name, {s_wiki, s_moin_wiki}) THEN "wiki"
    ELSE IF in(name, {s_creole, s_moin_creole}) THEN "creole"
    ELSE IF in(name, {s_rst, s_x_rst}) THEN "rst"
    ELSE IF in(name, {s_docbook, s_docbook_xml}) THEN "docbook"
    ELSE IF in(name, {s_markdown, s_x_markdown}) THEN "markdown"
    ELSE IF in(name, {s_mediawiki, s_x_mediawiki}) THEN "mediawiki"
    ELSE "fallback"

\* arguments.keyword['class'] = nowiki_args_old.replace('/', ' ')
WikiClass(args) == IF args.some /\ args.v # << >> THEN replace(args.v, s_slash, s_space) ELSE << >>

\* the outcomes of the sub-parser call the branch makes
SubParserResults(branch, content, args, nested) ==
    CASE branch = "wiki" -> parse_block(content, WikiClass(args), nested)
      [] branch = "creole" -> parse_block(content, << >>, nested)
      [] branch \in {"rst", "docbook", "markdown", "mediawiki"} -> convert(content, nested)
      [] OTHER -> NoParser

\* mutant: every sub-parser result is wrapped in a new page element
NewChildren_wraps_all(branch, nowiki_args, args, content, out) ==
    CASE branch = "highlight" ->
           LET r == ResolveLexer(args)
               kept == IF r.diag THEN invalid_args(<< >>, nowiki_args) ELSE << >>
           IN Append(kept, Blockcode(content, r.lexer.v))
      [] branch = "csv" -> <<CsvTable(content, args)>>
      [] branch \in {"wiki", "creole", "rst", "docbook", "markdown", "mediawiki"} ->
           <<El("page", << >>, <<out.root>>)>>
      [] OTHER -> Append(invalid_args(<< >>, nowiki_args), Blockcode(content, s_text))

\* the children of elem when handle_nowiki returns
NewChildren(branch, nowiki_args, args, content, out) ==
    CASE branch = "highlight" ->
           LET r == ResolveLexer(args)
               kept == IF r.diag THEN invalid_args(<< >>, nowiki_args) ELSE << >>
           IN Append(kept, Blockcode(content, r.lexer.v))
      [] branch = "csv" -> <<CsvTable(content, args)>>
      [] branch \in {"wiki", "creole"} -> <<El("page", << >>, <<out.root>>)>>
      [] branch \in {"rst", "docbook", "markdown", "mediawiki"} -> <<out.root>>
      [] OTHER -> Append(invalid_args(<< >>, nowiki_args), Blockcode(content, s_text))

\* the lexer lookups handle_nowiki makes, in order: those of the highlight
\* branch, and the lookup of 'text' on the way out for an unknown format
Lookups(branch, args) ==
    CASE branch = "highlight" -> ResolveLexer(args).tried
      [] branch = "fallback" -> <<Lookup("name", Some(s_text))>>
      [] OTHER -> << >>

\* mutant: a sub-parser failure is caught and turned into the plain-text fallback
SubParserFailure_absorbed(t, path, nowiki_args, content) ==
    [tree |-> SetChildren(t, path, Append(invalid_args(<< >>, nowiki_args), Blockcode(content, s_text))),
     phase |-> "running",
     error |-> ""]

\* mutant: the old children are removed only after the sub-parser has returned
SubParserFailure_keeps_children(t, path, nowiki_args, content) ==
    [tree |-> t, phase |-> "raised", error |-> "SubParserError"]

\* a sub-parser raises: elem.remove_all() has run, nothing was appended, and
\* no except clause of handle_nowiki or __call__ catches the exception
SubParserFailure(t, path, nowiki_args, content) ==
    [tree |-> SetChildren(t, path, << >>), phase |-> "raised", error |-> "SubParserError"]

\* ------------------------------------------ make.py: the developer menu
\* The part of the file system the menu commands read and write: the
\* activate file made by quickinstall, the directories wiki/data and
\* wiki/index, the index's _all_revs_*.toc files, what the wiki holds, and
\* the backup files and the directories a user may name on the command line.
BACKUP_FILENAME == "wiki/backup.moin"
JUST_IN_CASE_BACKUP == "wiki/deleted-backup.moin"
b1 == "wiki/backup1.moin"
b2 == "wiki/backup2.moin"
b3 == "wiki/backup3.moin"
UserFile == "my.moin"
Moin19Dir == "moin19/data"

FreshCheckout ==
    [activate |-> FALSE, data |-> FALSE, index |-> FALSE, toc |-> FALSE,
     content |-> "none", files |-> {}, dirs |-> {}]

\* the wiki itself: what the wiki-creating commands must leave alone
WikiOf(f) == [data |-> f.data, index |-> f.index, toc |-> f.toc, content |-> f.content]

isfile(f, filename) == filename \in f.files
isdir(f, dirname) == dirname \in f.dirs

wiki_exists(f) == f.toc

\* the lines make.py prints to the terminal; what search_for_phrase copies
\* from a log file is not kept
MsgHelp == "usage: ./m <target> where <target> is: ..."
MsgUnknown == "Error: unknown menu selection"
MsgNoQuickinstall == "Error: files created by quickinstall are missing, run quickinstall and try again."
MsgWikiExists == "Error: a wiki exists, delete it and try again."
MsgRedirected == "Output messages redirected to m-new-wiki.txt."
MsgCreated == "Success: a new wiki has been created."
MsgCreatedWorking == "Success: a new wiki has been created... working..."
MsgIndexedWorking == "Success: the index has been created for the sample wiki... working..."
MsgCreateFailed == "Error: attempt to create wiki failed."
MsgImportantNewWiki == "Important messages from m-new-wiki.txt are shown below:"
MsgSampleMismatch == "Error: the number of .data and .meta files should be equal"
MsgSampleMissing == "Error: file is missing"
MsgItemsAdded == "items were added to wiki"
MsgItemsFailed == "Error: attempt to add items to wiki failed."
MsgCreatingEmpty == "Creating a new empty wiki..."
MsgCreatingSample == "Creating a new wiki populated with sample data..."
MsgCreatingRestore == "Creating a new wiki and loading it with data from the file..."
MsgCreatingImport == "Creating a new wiki populated with data from the directory..."
MsgNoRestoreFile == "Error: cannot create wiki because the file does not exist."
MsgNoImportDir == "Error: cannot create wiki because the directory does not exist."
MsgNoImportArg == "Error: a path to the Moin 1.9 wiki/data data directory is required."
MsgRebuilding == "Rebuilding indexes...(ignore log messages from rst parser)..."
MsgIndexNoWiki == "Error: a wiki must be created before rebuilding the indexes."
MsgRunNoWiki == "Error: a wiki must be created before running the built-in server."
MsgBackupTo == "Creating a wiki backup to the file..."
MsgBackupRolling == "Creating a wiki backup to the file after rolling 3 prior backups..."
MsgBackupDone == "Success: wiki was backed up to the file"
MsgBackupLog == "Important messages from m-backup-wiki.txt are shown below."
MsgBackupFailed == "Error: attempt to backup wiki failed."
MsgBackupNoWiki == "Error: cannot backup wiki because it has not been created."
MsgDumping == "Creating static HTML image of wiki to the directory..."
MsgDumpDone == "Success: wiki was dumped to the directory"
MsgDumpFailed == "Error: attempt to dump wiki to html files failed."
MsgDumpLog == "Important messages from m-dump-html.txt are shown below."
MsgDumpNoWiki == "Error: cannot dump wiki because it has not been created."
MsgQuickinstall == "Running quickinstall.py... output messages redirected to m-quickinstall.txt"
MsgQuickinstallLog == "Searching m-quickinstall.txt, important messages are shown below..."
MsgDeleting == "Creating a backup named wiki/deleted-backup.moin; then deleting all wiki data and indexes..."
MsgDelBackupFailed == "Error: backup failed with return code."
MsgDeleted == "Wiki data successfully deleted."
MsgNotDeleted == "Wiki data not deleted because it does not exist."
MsgDeletedFiles == "Deleted files matching the pattern."
MsgDist == "Deleting wiki data, then creating distribution archive in /dist, output written to m-create-dist.txt."
MsgDistSummary == "Summary message from m-create-dist.txt is shown below:"
MsgDistDone == "Success: a distribution archive was created in /dist."
MsgDistFailed == "Error: create dist failed with return code."

ErrorMessages ==
    {MsgUnknown, MsgNoQuickinstall, MsgWikiExists, MsgCreateFailed, MsgSampleMismatch,
     MsgSampleMissing,
     MsgItemsFailed, MsgNoRestoreFile, MsgNoImportDir, MsgNoImportArg,
     MsgIndexNoWiki, MsgRunNoWiki, MsgBackupFailed, MsgBackupNoWiki,
     MsgDumpFailed, MsgDumpNoWiki, MsgDelBackupFailed, MsgDistFailed}

\* The shell commands handed to subprocess.call and what they do to the
\* file system.  A command that ends with 0 has done its work; one that
\* ends with another code may have done part of it.
CmdQuickinstall == [prog |-> "quickinstall.py", arg |-> ""]
CmdCreateEmpty == [prog |-> "moin index-create -s -i", arg |-> ""]
SerializedItems == "contrib/serialized/items.moin"
CmdCreateSampleOld == [prog |-> "moin index-create -s -i; moin load; moin index-build", arg |-> SerializedItems]
CmdSdist == [prog |-> "setup.py sdist", arg |-> ""]
CmdCreateUnicode == [prog |-> "moin index-create -s -i; moin load", arg |-> "contrib/sample/unicode.moin"]
CmdIndexBuild == [prog |-> "moin index-build", arg |-> ""]
\* one "moin item-put" per .meta file, joined; with no .meta file the command
\* is the activation alone
CmdItemPut(metas) ==
    IF metas = {} THEN [prog |-> "", arg |-> ""]
    ELSE [prog |-> "moin item-put", arg |-> "contrib/sample/"]
CmdRestore(filename) == [prog |-> "moin index-create -s -i; moin load; moin index-build", arg |-> filename]
CmdImport19(dirname) == [prog |-> "moin import19 -s -i", arg |-> dirname]
CmdReindex == [prog |-> "moin index-create -i; moin index-build", arg |-> ""]
CmdServer == [prog |-> "moin moin", arg |-> ""]
CmdSave(filename) == [prog |-> "moin save --all-backends", arg |-> filename]
DUMP_HTML_DIRECTORY == "HTML"
CmdDumpHtml(directory) == [prog |-> "moin dump-html", arg |-> directory]

Created(f, c) == [f EXCEPT !.data = TRUE, !.index = TRUE, !.toc = TRUE, !.content = c]
Partly(f) == {f, [f EXCEPT !.data = TRUE], [f EXCEPT !.data = TRUE, !.index = TRUE]}
Ends(fss, code) == {[result |-> code, fs |-> g] : g \in fss}

subprocess_call(command, f) ==
    CASE command.prog = CmdQuickinstall.prog ->
            Ends({[f EXCEPT !.activate = TRUE]}, 0) \cup Ends({f}, 1)
      [] command.prog = CmdCreateEmpty.prog ->
            Ends({Created(f, "empty")}, 0) \cup Ends(Partly(f), 1)
      [] command.prog = CmdCreateUnicode.prog ->
            Ends({Created(f, "unicode")}, 0) \cup Ends(Partly(f), 1)
      [] command.prog = CmdRestore("").prog ->
            Ends({Created(f, IF command.arg = SerializedItems
                             THEN "sample_old" ELSE "restored")}, 0)
            \cup Ends(Partly(f), 1)
      [] command.prog = CmdImport19("").prog ->
            Ends({Created(f, "imported")}, 0) \cup Ends(Partly(f), 1)
      [] command.prog = CmdItemPut({"a"}).prog ->
            Ends({[f EXCEPT !.content = "sample"]}, 0) \cup Ends({f}, 1)
      [] command.prog = CmdSave("").prog ->
            Ends({[f EXCEPT !.files = @ \cup {command.arg}]}, 0)
            \cup Ends({f, [f EXCEPT !.files = @ \cup {command.arg}]}, 1)
      [] OTHER -> Ends({f}, 0) \cup Ends({f}, 1)

\* One run of make.py: the file system, what was printed, the subprocesses
\* started, and whether an exception ended the run.
World(f) == [fs |-> f, out |-> << >>, started |-> << >>, raised |-> FALSE]
Say(w, m) == [w EXCEPT !.out = Append(@, m)]
call(w, command) ==
    {[w |-> [w EXCEPT !.fs = o.fs, !.started = Append(@, command)], result |-> o.result] :
        o \in subprocess_call(command, w.fs)}

\* make_wiki without the test for an existing wiki
make_wiki_overwrites(w, command, mode, msg) ==
    {IF c.result = 0
     THEN [w |-> Say(c.w, msg), ret |-> "True"]
     ELSE [w |-> Say(Say(c.w, MsgImportantNewWiki), MsgCreateFailed), ret |-> "False"] :
        c \in call(Say(w, MsgRedirected), command)}

\* make_wiki(command, mode, msg): returns None after the error, else
\* True or False by the subprocess's return code
make_wiki(w, command, mode, msg) ==
    IF wiki_exists(w.fs) /\ mode = "w"
    THEN {[w |-> Say(w, MsgWikiExists), ret |-> "None"]}
    ELSE {IF c.result = 0
          THEN [w |-> Say(c.w, msg), ret |-> "True"]
          ELSE [w |-> Say(Say(c.w, MsgImportantNewWiki), MsgCreateFailed), ret |-> "False"] :
             c \in call(Say(w, MsgRedirected), command)}

\* What contrib/sample/ may hold: the stems of its .meta files and of its
\* .data files.
SampleDirs ==
    {[meta |-> {"a", "b"}, data |-> {"a", "b"}],
     [meta |-> {"a"}, data |-> {"a", "b"}],
     [meta |-> {"a"}, data |-> {"b"}],
     [meta |-> {}, data |-> {}]}

\* put_items(dir) over one content of contrib/sample/
put_items_in(w, sample) ==
    IF Cardinality(sample.data) # Cardinality(sample.meta)
    THEN {[w |-> Say(w, MsgSampleMismatch), ret |-> "False"]}
    ELSE IF \E meta \in sample.meta : meta \notin sample.data
         THEN {[w |-> Say(w, MsgSampleMissing), ret |-> "False"]}
         ELSE {IF c.result = 0
               THEN [w |-> Say(c.w, MsgItemsAdded), ret |-> "True"]
               ELSE [w |-> Say(Say(c.w, MsgImportantNewWiki), MsgItemsFailed),
                     ret |-> "False"] :
                  c \in call(w, CmdItemPut(sample.meta))}

put_items(w) == UNION {put_items_in(w, sample) : sample \in SampleDirs}

cmd_quickinstall(w, args) ==
    {Say(c.w, MsgQuickinstallLog) : c \in call(Say(w, MsgQuickinstall), CmdQuickinstall)}

cmd_new_wiki(w, args) ==
    {r.w : r \in make_wiki(Say(w, MsgCreatingEmpty), CmdCreateEmpty, "w", MsgCreated)}

cmd_sample(w, args) ==
    UNION {IF r1.ret = "True"
           THEN UNION {IF r2.ret = "True"
                       THEN {r3.w : r3 \in put_items(r2.w)}
                       ELSE {r2.w} :
                          r2 \in make_wiki(r1.w, CmdIndexBuild, "a", MsgIndexedWorking)}
           ELSE {r1.w} :
              r1 \in make_wiki(Say(w, MsgCreatingSample), CmdCreateUnicode, "w",
                               MsgCreatedWorking)}

cmd_restore(w, args) ==
    LET filename == IF args # << >> THEN args[1] ELSE BACKUP_FILENAME
    IN IF isfile(w.fs, filename)
       THEN {r.w : r \in make_wiki(Say(w, MsgCreatingRestore), CmdRestore(filename),
                                   "w", MsgCreated)}
       ELSE {Say(w, MsgNoRestoreFile)}

cmd_import(w, args) ==
    IF args # << >>
    THEN IF isdir(w.fs, args[1])
         THEN {r.w : r \in make_wiki(Say(w, MsgCreatingImport), CmdImport19(args[1]),
                                     "w", MsgCreated)}
         ELSE {Say(w, MsgNoImportDir)}
    ELSE {Say(w, MsgNoImportArg)}

cmd_index(w, args) ==
    IF wiki_exists(w.fs)
    THEN {c.w : c \in call(Say(w, MsgRebuilding), CmdReindex)}
    ELSE {Say(w, MsgIndexNoWiki)}

cmd_run(w, args) ==
    IF wiki_exists(w.fs)
    THEN {c.w : c \in call(w, CmdServer)}
    ELSE {Say(w, MsgRunNoWiki)}

\* os.rename(src, dst) if src exists
Rename(files, src, dst) == IF src \in files THEN (files \ {src}) \cup {dst} ELSE files
\* the three prior backups move up by one, the oldest is removed
Roll(files) ==
    Rename(Rename(Rename(files \ {b3}, b2, b3), b1, b2), BACKUP_FILENAME, b1)

cmd_backup(w, args) ==
    IF wiki_exists(w.fs)
    THEN LET filename == IF args # << >> THEN args[1] ELSE BACKUP_FILENAME
             w1 == IF args # << >>
                   THEN Say(w, MsgBackupTo)
                   ELSE [Say(w, MsgBackupRolling) EXCEPT !.fs.files = Roll(@)]
         IN {IF c.result = 0
             THEN Say(c.w, MsgBackupDone)
             ELSE Say(Say(c.w, MsgBackupLog), MsgBackupFailed) :
                c \in call(w1, CmdSave(filename))}
    ELSE {Say(w, MsgBackupNoWiki)}

cmd_dump_html(w, args) ==
    IF wiki_exists(w.fs)
    THEN LET directory == IF args # << >> THEN args[1] ELSE DUMP_HTML_DIRECTORY
             w1 == IF args # << >> THEN Say(w, MsgDumping) ELSE w
         IN {Say(Say(c.w, IF c.result = 0 THEN MsgDumpDone ELSE MsgDumpFailed),
                 MsgDumpLog) :
                c \in call(w1, CmdDumpHtml(directory))}
    ELSE {Say(w, MsgDumpNoWiki)}

\* shutil.rmtree of wiki/data, then of wiki/index; rmtree of a directory
\* that is not there raises OSError
Rmtrees(w) ==
    IF w.fs.data \/ w.fs.index
    THEN IF ~w.fs.data
         THEN [w EXCEPT !.raised = TRUE]
         ELSE IF ~w.fs.index
              THEN [w EXCEPT !.fs.data = FALSE, !.fs.content = "none", !.raised = TRUE]
              ELSE Say([w EXCEPT !.fs.data = FALSE, !.fs.content = "none",
                                 !.fs.index = FALSE, !.fs.toc = FALSE], MsgDeleted)
    ELSE Say(w, MsgNotDeleted)

cmd_del_wiki(w, args) ==
    LET saved == IF wiki_exists(w.fs)
                 THEN {IF c.result # 0 THEN Say(c.w, MsgDelBackupFailed) ELSE c.w :
                          c \in call(Say(w, MsgDeleting), CmdSave(JUST_IN_CASE_BACKUP))}
                 ELSE {w}
    IN {Rmtrees(x) : x \in saved}

\* delete_files(pattern): *.orig, *.pyc and *.rej files are none of the files
\* kept in fs
delete_files(w) == Say(w, MsgDeletedFiles)

\* cmd_del_orig, cmd_del_pyc, cmd_del_rej, then cmd_del_wiki
cmd_del_all(w, args) ==
    cmd_del_wiki(delete_files(delete_files(delete_files(w))), args)

\* cmd_del_wiki, then setup.py sdist; an exception in cmd_del_wiki ends the run
cmd_dist(w, args) ==
    UNION {IF x.raised
           THEN {x}
           ELSE {Say(Say(c.w, MsgDistSummary),
                     IF c.result = 0 THEN MsgDistDone ELSE MsgDistFailed) :
                    c \in call(x, CmdSdist)} :
              x \in cmd_del_wiki(Say(w, MsgDist), args)}

cmd_sample_old(w, args) ==
    {r.w : r \in make_wiki(Say(w, MsgCreatingSample), CmdCreateSampleOld, "w", MsgCreated)}

\* ---------------------------------------------------------------- __main__
\* the names of the menu commands, as the cmd_ methods spell them
n_quickinstall == <<"q", "u", "i", "c", "k", "i", "n", "s", "t", "a", "l", "l">>
n_docs == <<"d", "o", "c", "s">>
n_extras == <<"e", "x", "t", "r", "a", "s">>
n_interwiki == <<"i", "n", "t", "e", "r", "w", "i", "k", "i">>
n_log == <<"l", "o", "g">>
n_new_wiki == <<"n", "e", "w", "_", "w", "i", "k", "i">>
n_sample_old == <<"s", "a", "m", "p", "l", "e", "_", "o", "l", "d">>
n_sample == <<"s", "a", "m", "p", "l", "e">>
n_restore == <<"r", "e", "s", "t", "o", "r", "e">>
n_import == <<"i", "m", "p", "o", "r", "t">>
n_index == <<"i", "n", "d", "e", "x">>
n_run == <<"r", "u", "n">>
n_backup == <<"b", "a", "c", "k", "u", "p">>
n_dump_html == <<"d", "u", "m", "p", "_", "h", "t", "m", "l">>
n_css == <<"c", "s", "s">>
n_tests == <<"t", "e", "s", "t", "s">>
n_coding_std == <<"c", "o", "d", "i", "n", "g", "_", "s", "t", "d">>
n_api == <<"a", "p", "i">>
n_dist == <<"d", "i", "s", "t">>
n_del_all == <<"d", "e", "l", "_", "a", "l", "l">>
n_del_orig == <<"d", "e", "l", "_", "o", "r", "i", "g">>
n_del_pyc == <<"d", "e", "l", "_", "p", "y", "c">>
n_del_rej == <<"d", "e", "l", "_", "r", "e", "j">>
n_del_wiki == <<"d", "e", "l", "_", "w", "i", "k", "i">>
s_cmd == <<"c", "m", "d", "_">>
s_dash == <<"-">>
s_underscore == <<"_">>
s_h == <<"-", "h">>
s_help == <<"-", "-", "h", "e", "l", "p">>
s_bogus_choice == <<"b", "o", "g", "u", "s">>

\* choices: the names of all cmd_ methods of Commands
choices ==
    {s_cmd \o n : n \in {n_quickinstall, n_docs, n_extras, n_interwiki, n_log, n_new_wiki,
                         n_sample_old, n_sample, n_restore, n_import, n_index, n_run,
                         n_backup, n_dump_html, n_css, n_tests, n_coding_std, n_api,
                         n_dist, n_del_all, n_del_orig, n_del_pyc, n_del_rej, n_del_wiki}}

\* 'cmd_%s' % sys.argv[1], with every '-' replaced by '_'
MethodName(typed) == replace(s_cmd \o typed, s_dash, s_underscore)

\* __main__, with choice = sys.argv[1] (None when nothing was typed) and
\* args = sys.argv[2:].  Of the methods in choices, docs, extras, interwiki,
\* log, css, tests, coding_std and api are not modelled: they read and write
\* nothing of fs, and a run of one of them changes neither fs nor last.
Main(f, choice, args) ==
    IF ~choice.some \/ choice.v = s_h \/ choice.v = s_help
    THEN {Say(World(f), MsgHelp)}
    ELSE IF choice.v # n_quickinstall /\ ~f.activate
    THEN {Say(World(f), MsgNoQuickinstall)}
    ELSE LET name == MethodName(choice.v)
             w == World(f)
         IN IF name \in choices
            THEN CASE name = s_cmd \o n_quickinstall -> cmd_quickinstall(w, args)
                   [] name = s_cmd \o n_new_wiki -> cmd_new_wiki(w, args)
                   [] name = s_cmd \o n_sample -> cmd_sample(w, args)
                   [] name = s_cmd \o n_sample_old -> cmd_sample_old(w, args)
                   [] name = s_cmd \o n_restore -> cmd_restore(w, args)
                   [] name = s_cmd \o n_import -> cmd_import(w, args)
                   [] name = s_cmd \o n_index -> cmd_index(w, args)
                   [] name = s_cmd \o n_run -> cmd_run(w, args)
                   [] name = s_cmd \o n_backup -> cmd_backup(w, args)
                   [] name = s_cmd \o n_dump_html -> cmd_dump_html(w, args)
                   [] name = s_cmd \o n_del_wiki -> cmd_del_wiki(w, args)
                   [] name = s_cmd \o n_del_all -> cmd_del_all(w, args)
                   [] name = s_cmd \o n_dist -> cmd_dist(w, args)
                   [] name \in {s_cmd \o n_del_orig, s_cmd \o n_del_pyc,
                                s_cmd \o n_del_rej} -> {delete_files(w)}
            ELSE {Say(Say(w, MsgHelp), MsgUnknown)}

NoCommand ==
    [cmd |-> << >>, typed |-> None, args |-> << >>, activated |-> FALSE,
     existed |-> FALSE,
     before |-> WikiOf(FreshCheckout), out |-> << >>, started |-> << >>,
     raised |-> FALSE]

\* ------------------------------------------------------------------ state
VARIABLES
    tree,      \* the document tree handed to the converter, mutated in place
    input,     \* the tree as it was handed over, before the first call
    phase,     \* "ready", "running", "done" (the call returned), "raised"
    calls,     \* number of calls of __call__ started
    stack,     \* the nested recurse generators, outermost first
    log,       \* one record per call of handle_nowiki, in order
    error,     \* the exception that left __call__, "" if none
    first,     \* the tree when the first call returned
    fs,        \* make.py: the file system the menu commands work on
    last       \* make.py: the last menu command run and what it did

vars == <<tree, input, phase, calls, stack, log, error, first, fs, last>>

\* ----------------------------------------------------------------- inputs
Strings(alphabet, n) == UNION {[1..k -> alphabet] : k \in 0..n}

D(name) == s_sentinel \o name
DA(name, args) == s_sentinel \o name \o s_space \o args

TableNames ==
    {s_csv, s_text_csv, s_wiki, s_moin_wiki, s_creole, s_moin_creole, s_rst, s_x_rst,
     s_docbook, s_docbook_xml, s_markdown, s_x_markdown, s_mediawiki, s_x_mediawiki}

NamedDirectives ==
    {D(n) : n \in TableNames \cup LegacyNames
                  \cup {s_highlight, s_bogus, s_text, s_CSV, s_Wiki, s_Highlight, s_cs, s_csvx}}
    \cup {DA(s_highlight, h) : h \in {s_python, s_cplusplus, s_x_python, s_notreal, s_text}}
    \cup {DA(s_Highlight, s_python), DA(s_csv, s_comma), DA(s_text_csv, s_comma),
          DA(s_wiki, s_a_b), DA(s_python, s_java), DA(s_creole, s_a_b), DA(s_mediawiki, s_a_b),
          D(s_csv) \o <<" ", " ">>, D(s_wiki) \o <<"\t">>, D(s_python) \o <<"\n">>,
          s_sentinel, s_sentinel \o <<" ">>, s_empty, s_csv, s_space \o D(s_csv),
          s_sentinel \o s_space \o s_csv, DA(s_csv, <<" ", ",">>),
          DA(s_csv, s_comma) \o <<" ", "\t">>,
          D(s_csv) \o <<c_vt>>, D(s_wiki) \o <<c_nbsp, " ">>, DA(s_csv, <<c_vt, ",">>)}

NamedBodies ==
    {s_empty, s_hello,
     <<"a", ";", "b", "\n", "1", ";", "2", "\n", "3", ";", "4">>,
     <<"a", ";", "b", "\n", "1">>,
     <<"a", ",", "b", "\n", "1", ",", "2">>}

GenDirectives == Strings({"#", "!", " ", "a"}, MaxDirLen)
GenBodies == Strings({"a", ";", "\n"}, MaxBodyLen)
CsvDirectives == {D(s_csv), D(s_text_csv), DA(s_csv, <<"a">>), DA(s_csv, <<";", ";">>)}

Page(kids) == El("page", << >>, <<El("body", << >>, kids)>>)

InputTrees ==
    {Page(<<RawPlaceholder(d, b)>>) : d \in NamedDirectives, b \in NamedBodies}
    \cup {Page(<<RawPlaceholder(d, <<"h", "i">>)>>) : d \in GenDirectives}
    \cup {Page(<<RawPlaceholder(d, b)>>) : d \in CsvDirectives, b \in GenBodies}
    \cup {Page(<<RawPlaceholder(D(x), b), RawPlaceholder(DA(s_highlight, x), b)>>) :
             x \in LegacyNames, b \in {s_hello, s_empty}}
    \cup {Page(<<Txt(s_hello), El("div", << >>, <<RawPlaceholder(d1, s_hello)>>), RawPlaceholder(d2, s_hello)>>) :
             d1 \in {D(s_wiki), D(s_csv), D(s_bogus)}, d2 \in {D(s_rst), D(s_python), s_empty}}
    \cup {Page(<<RawPlaceholder(D(s_bogus), s_hello), RawPlaceholder(s_empty, s_hello),
                 RawPlaceholder(DA(s_highlight, s_notreal), s_hello)>>)}
    \cup {Page(<< >>), Page(<<El("p", << >>, <<Txt(s_hello)>>)>>)}

Init ==
    /\ tree \in InputTrees
    /\ input = tree
    /\ phase = "ready"
    /\ calls = 0
    /\ stack = << >>
    /\ log = << >>
    /\ error = ""
    /\ first = Txt(<< >>)
    /\ fs = FreshCheckout
    /\ last = NoCommand

\* ------------------------------------------------------------- __call__
Top == stack[Len(stack)]
SetTop(f) == [stack EXCEPT ![Len(stack)] = f]

\* __call__ starts: the outermost recurse(tree, None)
Call ==
    /\ phase \in {"ready", "done"}
    /\ calls < MaxCalls
    /\ phase' = "running"
    /\ calls' = calls + 1
    /\ stack' = <<[path |-> << >>, i |-> 0, pc |-> "enter"]>>
    /\ UNCHANGED <<fs, last, tree, input, log, error, first>>

\* recurse yields a nowiki element and __call__ runs handle_nowiki on it
HandleNowiki ==
    /\ phase = "running"
    /\ stack # << >>
    /\ Top.pc = "enter"
    /\ LET path == Top.path
           elem == NodeAt(tree, path)
       IN /\ elem.tag = NowikiTag
          /\ IF Len(elem.children) # 3
             THEN \* marker_len, nowiki_args, content = elem._children
                  /\ phase' = "raised"
                  /\ error' = "ValueError"
                  /\ log' = Append(log, [call |-> calls, path |-> path, raw |-> << >>,
                                         content |-> << >>, name |-> None, args |-> None,
                                         rname |-> None, rargs |-> None,
                                         lookups |-> << >>,
                                         handler |-> "unpack", raised |-> TRUE])
                  /\ UNCHANGED <<fs, last, tree, input, calls, stack, first>>
             ELSE LET raw == elem.children[2].children[1].text
                      content == elem.children[3].text
                      nowiki_args == rstrip(raw)
                      parsed == ParseDirective(nowiki_args)
                      d == AliasRewrite(parsed)
                      branch == Dispatch(d.name)
                  IN \E out \in SubParserResults(branch, content, d.args, Nesting(tree, path)) :
                        /\ log' = Append(log, [call |-> calls, path |-> path, raw |-> raw,
                                               content |-> content,
                                               name |-> parsed.name, args |-> parsed.args,
                                               rname |-> d.name, rargs |-> d.args,
                                               lookups |-> Lookups(branch, d.args),
                                               handler |-> branch, raised |-> ~out.ok])
                        /\ IF out.ok
                           THEN /\ tree' = SetChildren(tree, path,
                                              NewChildren(branch, nowiki_args, d.args, content, out))
                                /\ stack' = SetTop([Top EXCEPT !.pc = "iter"])
                                /\ UNCHANGED <<phase, error>>
                           ELSE LET f == SubParserFailure(tree, path, nowiki_args, content)
                                IN /\ tree' = f.tree
                                   /\ phase' = f.phase
                                   /\ error' = f.error
                                   /\ stack' = IF f.phase = "running"
                                                THEN SetTop([Top EXCEPT !.pc = "iter"])
                                                ELSE stack
                        /\ UNCHANGED <<fs, last, input, calls, first>>

\* recurse enters an element that is not a nowiki element
Enter ==
    /\ phase = "running"
    /\ stack # << >>
    /\ Top.pc = "enter"
    /\ NodeAt(tree, Top.path).tag # NowikiTag
    /\ stack' = SetTop([Top EXCEPT !.pc = "iter"])
    /\ UNCHANGED <<fs, last, tree, input, phase, calls, log, error, first>>

\* mutant: the children of an element are walked from the last to the first
Descend_reversed ==
    /\ phase = "running"
    /\ stack # << >>
    /\ Top.pc = "iter"
    /\ LET kids == NodeAt(tree, Top.path).children
       IN /\ Top.i < Len(kids)
          /\ IsNode(kids[Len(kids) - Top.i])
          /\ stack' = Append(SetTop([Top EXCEPT !.i = Top.i + 1]),
                             [path |-> Append(Top.path, Len(kids) - Top.i), i |-> 0, pc |-> "enter"])
    /\ UNCHANGED <<fs, last, tree, input, phase, calls, log, error, first>>

\* for child in elem: a child that is a node starts a nested recurse
Descend ==
    /\ phase = "running"
    /\ stack # << >>
    /\ Top.pc = "iter"
    /\ LET kids == NodeAt(tree, Top.path).children
       IN /\ Top.i < Len(kids)
          /\ IsNode(kids[Top.i + 1])
          /\ stack' = Append(SetTop([Top EXCEPT !.i = Top.i + 1]),
                             [path |-> Append(Top.path, Top.i + 1), i |-> 0, pc |-> "enter"])
    /\ UNCHANGED <<fs, last, tree, input, phase, calls, log, error, first>>

\* for child in elem: a text child is passed over
SkipText ==
    /\ phase = "running"
    /\ stack # << >>
    /\ Top.pc = "iter"
    /\ LET kids == NodeAt(tree, Top.path).children
       IN /\ Top.i < Len(kids)
          /\ ~IsNode(kids[Top.i + 1])
          /\ stack' = SetTop([Top EXCEPT !.i = Top.i + 1])
    /\ UNCHANGED <<fs, last, tree, input, phase, calls, log, error, first>>

\* mutant: the generator stops after the first child of an element
Return_after_first_child ==
    /\ phase = "running"
    /\ stack # << >>
    /\ Top.pc = "iter"
    /\ Top.i >= 1 \/ Top.i >= Len(NodeAt(tree, Top.path).children)
    /\ stack' = SubSeq(stack, 1, Len(stack) - 1)
    /\ phase' = IF Len(stack) = 1 THEN "done" ELSE "running"
    /\ first' = IF Len(stack) = 1 /\ calls = 1 THEN tree ELSE first
    /\ UNCHANGED <<fs, last, tree, input, calls, log, error>>

\* mutant: the generator does not walk the children of a nowiki element
Return_skip_nowiki_children ==
    /\ phase = "running"
    /\ stack # << >>
    /\ Top.pc = "iter"
    /\ \/ NodeAt(tree, Top.path).tag = NowikiTag
       \/ Top.i >= Len(NodeAt(tree, Top.path).children)
    /\ stack' = SubSeq(stack, 1, Len(stack) - 1)
    /\ phase' = IF Len(stack) = 1 THEN "done" ELSE "running"
    /\ first' = IF Len(stack) = 1 /\ calls = 1 THEN tree ELSE first
    /\ UNCHANGED <<fs, last, tree, input, calls, log, error>>

\* a recurse generator is exhausted; the outermost one ends __call__
Return ==
    /\ phase = "running"
    /\ stack # << >>
    /\ Top.pc = "iter"
    /\ Top.i >= Len(NodeAt(tree, Top.path).children)
    /\ stack' = SubSeq(stack, 1, Len(stack) - 1)
    /\ phase' = IF Len(stack) = 1 THEN "done" ELSE "running"
    /\ first' = IF Len(stack) = 1 /\ calls = 1 THEN tree ELSE first
    /\ UNCHANGED <<fs, last, tree, input, calls, log, error>>

Next ==
    \/ Call
    \/ HandleNowiki
    \/ Enter
    \/ Descend
    \/ SkipText
    \/ Return

Spec == Init /\ [][Next]_vars

\* ------------------------------------------------------ the developer menu
nowiki_vars == <<tree, input, phase, calls, stack, log, error, first>>

\* what one run of "./m choice args" that ended as r leaves in last: cmd is
\* the command's name with '_' for every '-', typed is what was typed
Ran(choice, args, r) ==
    [cmd |-> IF choice.some THEN replace(choice.v, s_dash, s_underscore) ELSE << >>,
     typed |-> choice, args |-> args, activated |-> fs.activate,
     existed |-> wiki_exists(fs), before |-> WikiOf(fs),
     out |-> r.out, started |-> r.started, raised |-> r.raised]

\* the two ways to type a command's name: new_wiki and new-wiki
Spellings(n) == {Some(n), Some(replace(n, s_underscore, s_dash))}

\* ./m quickinstall
Quickinstall ==
    /\ \E choice \in Spellings(n_quickinstall), args \in {<< >>} :
          \E r \in Main(fs, choice, args) :
             /\ fs' = r.fs
             /\ last' = Ran(choice, args, r)
    /\ UNCHANGED nowiki_vars

\* ./m new-wiki
NewWiki ==
    /\ \E choice \in Spellings(n_new_wiki), args \in {<< >>} :
          \E r \in Main(fs, choice, args) :
             /\ fs' = r.fs
             /\ last' = Ran(choice, args, r)
    /\ UNCHANGED nowiki_vars

\* ./m sample
Sample ==
    /\ \E choice \in Spellings(n_sample), args \in {<< >>} :
          \E r \in Main(fs, choice, args) :
             /\ fs' = r.fs
             /\ last' = Ran(choice, args, r)
    /\ UNCHANGED nowiki_vars

\* ./m sample-old
SampleOld ==
    /\ \E choice \in Spellings(n_sample_old), args \in {<< >>} :
          \E r \in Main(fs, choice, args) :
             /\ fs' = r.fs
             /\ last' = Ran(choice, args, r)
    /\ UNCHANGED nowiki_vars

\* ./m restore
Restore ==
    /\ \E choice \in Spellings(n_restore), args \in {<< >>, <<UserFile>>} :
          \E r \in Main(fs, choice, args) :
             /\ fs' = r.fs
             /\ last' = Ran(choice, args, r)
    /\ UNCHANGED nowiki_vars

\* ./m import
Import ==
    /\ \E choice \in Spellings(n_import), args \in {<< >>, <<Moin19Dir>>} :
          \E r \in Main(fs, choice, args) :
             /\ fs' = r.fs
             /\ last' = Ran(choice, args, r)
    /\ UNCHANGED nowiki_vars

\* ./m index
Index ==
    /\ \E choice \in Spellings(n_index), args \in {<< >>} :
          \E r \in Main(fs, choice, args) :
             /\ fs' = r.fs
             /\ last' = Ran(choice, args, r)
    /\ UNCHANGED nowiki_vars

\* ./m run
Run ==
    /\ \E choice \in Spellings(n_run), args \in {<< >>} :
          \E r \in Main(fs, choice, args) :
             /\ fs' = r.fs
             /\ last' = Ran(choice, args, r)
    /\ UNCHANGED nowiki_vars

\* ./m backup
Backup ==
    /\ \E choice \in Spellings(n_backup), args \in {<< >>, <<UserFile>>} :
          \E r \in Main(fs, choice, args) :
             /\ fs' = r.fs
             /\ last' = Ran(choice, args, r)
    /\ UNCHANGED nowiki_vars

\* ./m dump-html
DumpHtml ==
    /\ \E choice \in Spellings(n_dump_html), args \in {<< >>, <<"out">>} :
          \E r \in Main(fs, choice, args) :
             /\ fs' = r.fs
             /\ last' = Ran(choice, args, r)
    /\ UNCHANGED nowiki_vars

\* ./m del-wiki
DelWiki ==
    /\ \E choice \in Spellings(n_del_wiki), args \in {<< >>} :
          \E r \in Main(fs, choice, args) :
             /\ fs' = r.fs
             /\ last' = Ran(choice, args, r)
    /\ UNCHANGED nowiki_vars

\* ./m del-all
DelAll ==
    /\ \E choice \in Spellings(n_del_all), args \in {<< >>} :
          \E r \in Main(fs, choice, args) :
             /\ fs' = r.fs
             /\ last' = Ran(choice, args, r)
    /\ UNCHANGED nowiki_vars

\* ./m dist
Dist ==
    /\ \E choice \in Spellings(n_dist), args \in {<< >>} :
          \E r \in Main(fs, choice, args) :
             /\ fs' = r.fs
             /\ last' = Ran(choice, args, r)
    /\ UNCHANGED nowiki_vars

\* ./m del-orig, ./m del-pyc, ./m del-rej
DelFiles ==
    /\ \E choice \in Spellings(n_del_orig) \cup Spellings(n_del_pyc) \cup Spellings(n_del_rej), args \in {<< >>} :
          \E r \in Main(fs, choice, args) :
             /\ fs' = r.fs
             /\ last' = Ran(choice, args, r)
    /\ UNCHANGED nowiki_vars

\* ./m, ./m -h, ./m --help
Help ==
    /\ \E choice \in {None, Some(s_h), Some(s_help)}, args \in {<< >>} :
          \E r \in Main(fs, choice, args) :
             /\ fs' = r.fs
             /\ last' = Ran(choice, args, r)
    /\ UNCHANGED nowiki_vars

\* ./m with a name that is no command
Unknown ==
    /\ \E choice \in {Some(s_bogus_choice)}, args \in {<< >>} :
          \E r \in Main(fs, choice, args) :
             /\ fs' = r.fs
             /\ last' = Ran(choice, args, r)
    /\ UNCHANGED nowiki_vars

\* a checkout before quickinstall; the user may have a backup file and a
\* moin 1.9 data directory at hand
MenuInit ==
    /\ \E files \in SUBSET {UserFile}, dirs \in SUBSET {Moin19Dir} :
          fs = [FreshCheckout EXCEPT !.files = files, !.dirs = dirs]
    /\ last = NoCommand
    /\ tree = Page(<< >>)
    /\ input = tree
    /\ phase = "ready"
    /\ calls = 0
    /\ stack = << >>
    /\ log = << >>
    /\ error = ""
    /\ first = Txt(<< >>)

MenuNext ==
    \/ Quickinstall
    \/ NewWiki
    \/ Sample
    \/ Restore
    \/ Import
    \/ Index
    \/ Run
    \/ Backup
    \/ DumpHtml
    \/ DelWiki
    \/ SampleOld
    \/ DelAll
    \/ Dist
    \/ DelFiles
    \/ Help
    \/ Unknown

MenuSpec == MenuInit /\ [][MenuNext]_vars


\* ----------------------------------------------------------------- claims
\* the raw form of a placeholder: marker, directive element, body text
IsRawForm(n) ==
    /\ Len(n.children) = 3
    /\ ~IsNode(n.children[1])
    /\ n.children[2].tag = "nowiki-args"
    /\ ~IsNode(n.children[3])

Handled(k) == log[k].handler # "unpack" /\ ~log[k].raised
Entries == {k \in 1..Len(log) : Handled(k)}

\* C1 (as claimed): after expand returns, a traversal of the whole tree finds
\* no node whose tag is the placeholder tag.
C1_NoPlaceholderTagRemains ==
    phase = "done" => NowikiPaths(tree) = {}

\* C1 (amended): after expand returns, every placeholder of the input is
\* still in the tree with the placeholder tag, and a traversal finds no
\* placeholder-tagged node that is still in its raw three-child form.
C1_NoRawPlaceholderRemains ==
    (phase = "done" /\ calls = 1) =>
        /\ NowikiPaths(input) \subseteq NowikiPaths(tree)
        /\ \A p \in NowikiPaths(tree) : ~IsRawForm(NodeAt(tree, p))

C1_Witness ==
    /\ phase = "done"
    /\ calls = 1
    /\ Cardinality(NowikiPaths(input)) >= 2
    /\ \A p \in NowikiPaths(input) : ~IsRawForm(NodeAt(tree, p))

\* C2: a second expand on a tree that expand has already processed completes
\* without raising and returns the tree the first call returned.
C2_SecondCallIsNoOp ==
    calls = 2 =>
        /\ phase # "raised"
        /\ phase = "done" => tree = first

\* C3: a placeholder that a handler splices in during the call is itself
\* passed to handle_nowiki within that call, and none is left in raw form
\* when expand returns.
C3_NestedExpanded ==
    (phase = "done" /\ calls = 1) =>
        \A p \in NowikiPaths(tree) \ NowikiPaths(input) :
            /\ \E k \in 1..Len(log) : log[k].path = p /\ log[k].call = 1
            /\ ~IsRawForm(NodeAt(tree, p))

C3_Witness ==
    /\ phase = "done"
    /\ calls = 1
    /\ \E p \in NowikiPaths(tree) :
          /\ Nesting(tree, p) = 2
          /\ ~IsRawForm(NodeAt(tree, p))
          /\ \E k \in 1..Len(log) : log[k].path = p

Contains(s, sub) == \E i \in 1..(Len(s) - Len(sub) + 1) : SubSeq(s, i, i + Len(sub) - 1) = sub

KidsOf(k) == NodeAt(tree, log[k].path).children
IsDiagnostic(c) == c.tag = "div" /\ c.cls = s_error
Message(c) == c.children[1].children[1].text
PlainTextBlock(content) == El("blockcode", s_highlight, <<El("span", s_text, <<Txt(content)>>)>>)

\* C4: the message of a diagnostic node contains the raw directive line of
\* its placeholder as a contiguous substring.
C4_MessageQuotesDirective ==
    \A k \in Entries :
        \A j \in 1..Len(KidsOf(k)) :
            IsDiagnostic(KidsOf(k)[j]) => Contains(Message(KidsOf(k)[j]), rstrip(log[k].raw))

Unresolvable(hint) == ~get_lexer_by_name(hint).some /\ ~get_lexer_for_mimetype(hint).some

\* the resolution failures of C5: no usable directive, a format name that is
\* in no table, or highlight with a hint no lookup resolves
ResolutionFails(k) ==
    \/ ~log[k].name.some
    \/ log[k].name.v \notin TableNames \cup LegacyNames \cup {s_highlight}
    \/ log[k].rname = Some(s_highlight) /\ Unresolvable(log[k].rargs)

\* C5: a format-resolution failure raises nothing and leaves the placeholder
\* with exactly a diagnostic node followed by one highlight-class code block
\* that renders the body with the plain-text lexer.
C5_ResolutionFailureFallsBack ==
    \A k \in 1..Len(log) :
        (log[k].handler # "unpack" /\ ResolutionFails(k)) =>
            /\ ~log[k].raised
            /\ Len(KidsOf(k)) = 2
            /\ IsDiagnostic(KidsOf(k)[1])
            /\ KidsOf(k)[2] = PlainTextBlock(log[k].content)

C5_Witness ==
    /\ phase = "done"
    /\ \E i, j, k \in Entries :
          /\ ~log[i].name.some
          /\ log[j].name = Some(s_bogus)
          /\ log[k].name = Some(s_highlight) /\ log[k].args = Some(s_notreal)
          /\ \A m \in {i, j, k} : KidsOf(m)[2] = PlainTextBlock(log[m].content)

RawOf(p) == NodeAt(input, p).children[2].children[1].text
BodyOf(p) == NodeAt(input, p).children[3].text

\* the pairs of input placeholders #!X / #!highlight X over the same body
AliasPairs ==
    {pq \in NowikiPaths(input) \X NowikiPaths(input) \X LegacyNames :
        /\ RawOf(pq[1]) = D(pq[3])
        /\ RawOf(pq[2]) = DA(s_highlight, pq[3])
        /\ BodyOf(pq[1]) = BodyOf(pq[2])}

\* C6 (as claimed): #!X and #!highlight X expand to identical subtrees for
\* every legacy name X, whatever the lexer resolution gives.
C6_AliasIdentical ==
    (phase = "done" /\ calls = 1) =>
        \A pq \in AliasPairs :
            NodeAt(tree, pq[1]).children = NodeAt(tree, pq[2]).children

\* C6 (amended): they expand to identical subtrees whenever X resolves to a
\* lexer by name or by mimetype; when X resolves to none, both hold a
\* diagnostic followed by the same plain-text block and differ in the
\* diagnostic alone.
C6_AliasIdenticalWhenResolved ==
    (phase = "done" /\ calls = 1) =>
        \A pq \in AliasPairs :
            LET a == NodeAt(tree, pq[1]).children
                b == NodeAt(tree, pq[2]).children
            IN IF Unresolvable(Some(pq[3]))
               THEN /\ Len(a) = 2 /\ Len(b) = 2
                    /\ IsDiagnostic(a[1]) /\ IsDiagnostic(b[1])
                    /\ a[1] # b[1]
                    /\ a[2] = b[2]
                    /\ a[2] = PlainTextBlock(BodyOf(pq[1]))
               ELSE /\ a = b
                    /\ Len(a) = 1
                    /\ a[1].tag = "blockcode"

C6_Witness ==
    /\ phase = "done"
    /\ calls = 1
    /\ \E pq \in AliasPairs :
          /\ pq[3] = s_python
          /\ NodeAt(tree, pq[1]).children = NodeAt(tree, pq[2]).children
          /\ NodeAt(tree, pq[1]).children[1].tag = "blockcode"

\* the handler the dispatch table of the claim names for a resolved format name
ExpectedHandler(n) ==
    IF ~n.some THEN "fallback"
    ELSE CASE n.v = s_highlight -> "highlight"
           [] n.v = s_csv \/ n.v = s_text_csv -> "csv"
           [] n.v = s_wiki \/ n.v = s_moin_wiki -> "wiki"
           [] n.v = s_creole \/ n.v = s_moin_creole -> "creole"
           [] n.v = s_rst \/ n.v = s_x_rst -> "rst"
           [] n.v = s_docbook \/ n.v = s_docbook_xml -> "docbook"
           [] n.v = s_markdown \/ n.v = s_x_markdown -> "markdown"
           [] n.v = s_mediawiki \/ n.v = s_x_mediawiki -> "mediawiki"
           [] OTHER -> "fallback"

\* what each handler leaves in the placeholder
ProductOf(handler, kids) ==
    CASE handler = "highlight" ->
           /\ Len(kids) \in {1, 2}
           /\ kids[Len(kids)].tag = "blockcode"
           /\ Len(kids) = 2 => IsDiagnostic(kids[1])
      [] handler = "csv" -> Len(kids) = 1 /\ kids[1].tag = "table"
      [] handler = "fallback" ->
           Len(kids) = 2 /\ IsDiagnostic(kids[1]) /\ kids[2].tag = "blockcode"
      [] OTHER -> Len(kids) = 1 /\ kids[1].tag = "page"

\* C7: the handler that runs for a placeholder is the one the dispatch table
\* gives for the resolved format name by exact, case-sensitive string
\* equality, the fallback for every other or absent name, and the
\* placeholder holds the product of that one handler.
C7_DispatchByExactName ==
    \A k \in 1..Len(log) :
        log[k].handler # "unpack" =>
            /\ log[k].handler = ExpectedHandler(log[k].rname)
            /\ ~log[k].raised => ProductOf(log[k].handler, KidsOf(k))

C7_Witness ==
    /\ phase = "done"
    /\ \E k \in Entries :
          /\ log[k].rname = Some(s_cs)
          /\ log[k].handler = "fallback"
          /\ ProductOf("fallback", KidsOf(k))

\* C8: with t the right-trimmed directive line: if t starts with #! and is
\* longer than two characters, format_name is the text after #! up to the
\* first space and format_args everything after that space (absent when
\* there is none); otherwise both are absent and the placeholder takes the
\* unknown-format path without raising.
C8_DirectiveParsing ==
    \A k \in 1..Len(log) :
        log[k].handler # "unpack" =>
            \A n \in 0..Len(log[k].raw) :
                LET raw == log[k].raw
                    t == SubSeq(raw, 1, n)
                    name == log[k].name
                    args == log[k].args
                IN (/\ n = 0 \/ raw[n] \notin Whitespace
                    /\ \A i \in (n + 1)..Len(raw) : raw[i] \in Whitespace)
                   => IF Len(t) > 2 /\ t[1] = "#" /\ t[2] = "!"
                      THEN /\ name.some
                           /\ \A i \in 1..Len(name.v) : name.v[i] # " "
                           /\ IF args.some
                              THEN t = <<"#", "!">> \o name.v \o <<" ">> \o args.v
                              ELSE t = <<"#", "!">> \o name.v
                      ELSE /\ name = None
                           /\ args = None
                           /\ log[k].handler = "fallback"
                           /\ ~log[k].raised

C8_Witness ==
    /\ phase = "done"
    /\ \E k \in Entries :
          /\ log[k].raw = DA(s_csv, s_comma) \o <<" ", "\t">>
          /\ log[k].name = Some(s_csv)
          /\ log[k].args = Some(s_comma)

\* the cell texts of a table row
CellsOf(row) == [j \in 1..Len(row.children) |-> row.children[j].children[1].text]
HeaderOf(table) == CellsOf(table.children[1].children[1])
RowsOf(table) == [i \in 1..Len(table.children[2].children) |-> CellsOf(table.children[2].children[i])]

\* cells is line split on sep: joined by sep they give line, and no
\* separator lies inside a cell
IsSplitOf(cells, line, sep) ==
    /\ Len(cells) >= 1
    /\ join(sep, cells) = line
    /\ \A j \in 1..(Len(cells) - 1) : find(cells[j] \o sep, sep) = Len(cells[j]) + 1
    /\ ~Contains(cells[Len(cells)], sep)

CsvEntries == {k \in Entries : log[k].handler = "csv"}

\* C9: for csv the body is split on newline, the first line split on the
\* separator (the arguments, or ; without arguments) is the header row and
\* every further line split on the separator is one body row, in order,
\* each row with its own number of cells.
C9_CsvTable ==
    \A k \in CsvEntries :
        LET sep == IF log[k].rargs.some THEN log[k].rargs.v ELSE <<";">>
            table == KidsOf(k)[1]
            head == HeaderOf(table)
            rows == RowsOf(table)
            lines == <<join(sep, head)>> \o [i \in 1..Len(rows) |-> join(sep, rows[i])]
        IN /\ Len(KidsOf(k)) = 1
           /\ table.tag = "table"
           /\ Len(table.children[1].children) = 1
           /\ IsSplitOf(lines, log[k].content, <<"\n">>)
           /\ IsSplitOf(head, lines[1], sep)
           /\ \A i \in 1..Len(rows) : IsSplitOf(rows[i], lines[i + 1], sep)
           /\ (log[k].content = <<"a", ";", "b", "\n", "1", ";", "2", "\n", "3", ";", "4">> /\ sep = <<";">>)
                 => /\ head = <<(<<"a">>), (<<"b">>)>>
                    /\ rows = << <<(<<"1">>), (<<"2">>)>>, <<(<<"3">>), (<<"4">>)>> >>
           /\ (log[k].content = <<"a", ";", "b", "\n", "1">> /\ sep = <<";">>)
                 => /\ head = <<(<<"a">>), (<<"b">>)>>
                    /\ rows = << <<(<<"1">>)>> >>

C9_Witness ==
    /\ phase = "done"
    /\ \E k \in CsvEntries :
          /\ log[k].content = <<"a", ";", "b", "\n", "1">>
          /\ log[k].rargs = None
          /\ Len(HeaderOf(KidsOf(k)[1])) = 2
          /\ RowsOf(KidsOf(k)[1]) = << <<(<<"1">>)>> >>

\* C10 (as claimed): a csv placeholder with an empty body gives a header row
\* with no cells and no body rows.
C10_EmptyCsvNoCells ==
    \A k \in CsvEntries :
        log[k].content = << >> =>
            /\ Len(HeaderOf(KidsOf(k)[1])) = 0
            /\ Len(RowsOf(KidsOf(k)[1])) = 0

\* C10 (amended): a csv placeholder with an empty body gives, without error,
\* a header row of exactly one cell whose text is empty, and no body rows.
C10_EmptyCsvOneEmptyCell ==
    \A k \in 1..Len(log) :
        (log[k].handler = "csv" /\ log[k].content = << >>) =>
            /\ ~log[k].raised
            /\ Len(KidsOf(k)) = 1
            /\ KidsOf(k)[1].tag = "table"
            /\ HeaderOf(KidsOf(k)[1]) = << << >> >>
            /\ Len(RowsOf(KidsOf(k)[1])) = 0

C10_Witness ==
    /\ phase = "done"
    /\ \E k \in CsvEntries :
          /\ log[k].content = << >>
          /\ log[k].raw = D(s_csv)
          /\ Len(KidsOf(k)[1].children[1].children[1].children) = 1

\* the tree without what the placeholders hold
RECURSIVE Strip(_)
Strip(t) ==
    IF t.tag = NowikiTag
    THEN [t EXCEPT !.children = << >>]
    ELSE [t EXCEPT !.children = [i \in 1..Len(t.children) |-> Strip(t.children[i])]]

\* C11: expand works on the tree it was given and returns it; every node that
\* is not a placeholder keeps its tag, attributes and child sequence, every
\* placeholder keeps its tag, attributes and position; only the child
\* sequences of placeholders change.
C11_FrameOfExpand ==
    /\ Strip(tree) = Strip(input)
    /\ \A p \in NowikiPaths(input) :
          /\ NodeAt(tree, p).tag = NowikiTag
          /\ NodeAt(tree, p).cls = NodeAt(input, p).cls
    /\ (phase = "done" /\ calls = 1) => first = tree

C11_Witness ==
    /\ phase = "done"
    /\ calls = 1
    /\ first = tree
    /\ tree # input
    /\ Strip(tree) = Strip(input)
    /\ \E p \in NowikiPaths(input) : Len(p) = 3 /\ ~IsRawForm(NodeAt(tree, p))
    /\ \E p \in Paths(input) : NodeAt(input, p).tag = "#text" /\ Len(p) = 2

SubParsers == {"wiki", "creole", "rst", "docbook", "markdown", "mediawiki"}

\* C12: when the sub-parser selected for a placeholder raises, the error
\* leaves expand unchanged: nothing is handled after it, and the placeholder
\* gets neither a diagnostic node nor a plain-text block.
C12_SubParserErrorPropagates ==
    \A k \in 1..Len(log) :
        (log[k].raised /\ log[k].handler \in SubParsers) =>
            /\ phase = "raised"
            /\ error = "SubParserError"
            /\ k = Len(log)
            /\ \A j \in 1..Len(KidsOf(k)) :
                  ~IsDiagnostic(KidsOf(k)[j]) /\ KidsOf(k)[j].tag # "blockcode"

C12_Witness ==
    /\ phase = "raised"
    /\ error = "SubParserError"
    /\ Len(log) >= 2
    /\ log[Len(log)].raised
    /\ log[Len(log)].handler = "rst"
    /\ KidsOf(Len(log)) = << >>

\* the roots the sub-parser of entry k can have returned
ReturnedRoots(k) ==
    {r.root : r \in {x \in SubParserResults(log[k].handler, log[k].content, log[k].rargs,
                                            Nesting(tree, log[k].path)) : x.ok}}

SubParserEntries == {k \in Entries : log[k].handler \in SubParsers}

\* C14 (as claimed): for each of the six sub-parser formats the placeholder
\* ends with one child, a page node made by the engine, whose sole child is
\* the root the sub-parser returned.
C14_ResultWrappedInPage ==
    \A k \in SubParserEntries :
        /\ Len(KidsOf(k)) = 1
        /\ KidsOf(k)[1].tag = "page"
        /\ Len(KidsOf(k)[1].children) = 1
        /\ \E r \in ReturnedRoots(k) : Strip(KidsOf(k)[1].children[1]) = Strip(r)

\* C14 (amended): for wiki and creole the placeholder ends with one child, a
\* page node made by the engine, whose sole child is the root parse_block
\* returned; for rst, docbook, markdown and mediawiki the placeholder ends
\* with one child, which is the root the sub-parser returned, unwrapped.
C14_WrappedOnlyForParseBlock ==
    \A k \in SubParserEntries :
        /\ Len(KidsOf(k)) = 1
        /\ IF log[k].handler \in {"wiki", "creole"}
           THEN /\ KidsOf(k)[1].tag = "page"
                /\ KidsOf(k)[1].cls = << >>
                /\ Len(KidsOf(k)[1].children) = 1
                /\ \E r \in ReturnedRoots(k) : Strip(KidsOf(k)[1].children[1]) = Strip(r)
           ELSE \E r \in ReturnedRoots(k) : Strip(KidsOf(k)[1]) = Strip(r)

C14_Witness ==
    /\ phase = "done"
    /\ \E i, j \in SubParserEntries :
          /\ log[i].handler = "wiki"
          /\ log[j].handler = "rst"
          /\ \E r \in ReturnedRoots(j) : Strip(KidsOf(j)[1]) = Strip(r)
          /\ \E r \in ReturnedRoots(i) : Strip(KidsOf(i)[1].children[1]) = Strip(r)

\* p comes before q in pre-order: p is an ancestor of q, or p branches off to
\* the left of q
Before(p, q) ==
    \/ Len(p) < Len(q) /\ SubSeq(q, 1, Len(p)) = p
    \/ \E i \in 1..Len(p) :
          /\ i <= Len(q)
          /\ SubSeq(p, 1, i - 1) = SubSeq(q, 1, i - 1)
          /\ p[i] < q[i]

\* C15: within one expand call the placeholders are handled in pre-order of
\* the tree, none twice, and when the call returns every placeholder in the
\* tree, given or spliced in, has been handled.
C15_PreOrderExactlyOnce ==
    /\ \A i, j \in 1..Len(log) :
          (i < j /\ log[i].call = log[j].call) => Before(log[i].path, log[j].path)
    /\ (phase = "done" /\ calls = 1) =>
          NowikiPaths(tree) = {log[k].path : k \in 1..Len(log)}

C15_Witness ==
    /\ phase = "done"
    /\ calls = 1
    /\ Len(log) >= 4
    /\ Cardinality(NowikiPaths(tree)) = Len(log)
    /\ \E k \in 1..Len(log) : Nesting(tree, log[k].path) = 2

HighlightEntries == {k \in Entries : log[k].handler = "highlight"}

\* C16: for highlight the lookup by name is made first, the lookup by
\* mimetype only when that fails, and the diagnostic with the plain-text
\* lexer is used only when both fail; when a lookup succeeds the placeholder
\* ends with one child, a highlight-class code block, and no diagnostic.
C16_LexerResolutionOrder ==
    \A k \in HighlightEntries :
        LET byname == get_lexer_by_name(log[k].rargs)
            bymime == get_lexer_for_mimetype(log[k].rargs)
            kids == KidsOf(k)
            hint == log[k].rargs
        IN /\ log[k].lookups[1] = Lookup("name", hint)
           /\ IF byname.some
              THEN /\ log[k].lookups = <<Lookup("name", hint)>>
                   /\ kids = <<El("blockcode", s_highlight, highlight(log[k].content, byname.v))>>
              ELSE /\ SubSeq(log[k].lookups, 1, 2)
                         = <<Lookup("name", hint), Lookup("mimetype", hint)>>
                   /\ IF bymime.some
                      THEN /\ Len(log[k].lookups) = 2
                           /\ kids = <<El("blockcode", s_highlight,
                                         highlight(log[k].content, bymime.v))>>
                      ELSE /\ log[k].lookups
                                = <<Lookup("name", hint), Lookup("mimetype", hint),
                                    Lookup("name", Some(s_text))>>
                           /\ Len(kids) = 2
                           /\ IsDiagnostic(kids[1])
                           /\ kids[2] = PlainTextBlock(log[k].content)

C16_Witness ==
    /\ phase = "done"
    /\ \E k \in HighlightEntries :
          /\ log[k].rargs = Some(s_x_python)
          /\ log[k].lookups = <<Lookup("name", Some(s_x_python)),
                                Lookup("mimetype", Some(s_x_python))>>
          /\ Len(KidsOf(k)) = 1
          /\ KidsOf(k)[1].children[1].cls = s_python

\* the entries that took the error-fallback path
FallbackEntries ==
    {k \in Entries : \/ log[k].handler = "fallback"
                     \/ log[k].handler = "highlight" /\ Unresolvable(log[k].rargs)}

ParentKidsOf(k) == NodeAt(tree, SubSeq(log[k].path, 1, Len(log[k].path) - 1)).children

\* C17 (as claimed): on the error-fallback path the diagnostic node is
\* appended to the parent of the placeholder, as a sibling, and the
\* placeholder holds exactly the plain-text block.
C17_DiagnosticInParent ==
    \A k \in FallbackEntries :
        /\ \E j \in 1..Len(ParentKidsOf(k)) : IsDiagnostic(ParentKidsOf(k)[j])
        /\ KidsOf(k) = <<PlainTextBlock(log[k].content)>>

\* C17 (amended): on the error-fallback path the diagnostic node is appended
\* to the placeholder itself, as its first child, followed by the plain-text
\* block as its second and last child; the parent of the placeholder gets no
\* diagnostic node.
C17_DiagnosticInPlaceholder ==
    \A k \in FallbackEntries :
        /\ \A j \in 1..Len(ParentKidsOf(k)) : ~IsDiagnostic(ParentKidsOf(k)[j])
        /\ \E j \in 1..Len(KidsOf(k)) : IsDiagnostic(KidsOf(k)[j])
        /\ KidsOf(k)[Len(KidsOf(k))] = PlainTextBlock(log[k].content)
        /\ Len(KidsOf(k)) = 2

C17_Witness ==
    /\ phase = "done"
    /\ \E k \in FallbackEntries :
          /\ log[k].raw = D(s_bogus)
          /\ IsDiagnostic(KidsOf(k)[1])
          /\ Len(ParentKidsOf(k)) = 3

RECURSIVE DepthOf(_)
DepthOf(t) ==
    IF Len(t.children) = 0 THEN 1
    ELSE 1 + (CHOOSE m \in {DepthOf(t.children[i]) : i \in 1..Len(t.children)} :
                 \A i \in 1..Len(t.children) : DepthOf(t.children[i]) <= m)

\* the deepest subtree handle_nowiki builds by itself: a table
OwnProductDepth == DepthOf(build_dom_table(<< <<s_empty>> >>, <<s_empty>>, s_table_cls))

\* C18: the nesting depth of recurse stays within a bound fixed by the engine,
\* the depth of the tree it was given plus that of its own products, however
\* deeply the sub-parser output nests placeholders.
C18_RecursionDepthCapped ==
    Len(stack) <= DepthOf(input) + OwnProductDepth

\* p is a path of the tree t
RECURSIVE IsPath(_, _)
IsPath(t, p) ==
    \/ p = << >>
    \/ Head(p) <= Len(t.children) /\ IsPath(t.children[Head(p)], Tail(p))

\* C19: when handling placeholder P raises after its directive was read, P
\* has lost its three children and got nothing in return, every placeholder
\* before P in pre-order is expanded and every placeholder after P is as it
\* was handed in: the tree is not put back.
C19_NoRollback ==
    (phase = "raised" /\ error = "SubParserError") =>
        LET P == log[Len(log)].path
        IN /\ NodeAt(tree, P).children = << >>
           /\ tree # input
           /\ \A p \in NowikiPaths(tree) :
                 /\ Before(p, P) => ~IsRawForm(NodeAt(tree, p)) /\ Len(NodeAt(tree, p).children) >= 1
                 /\ Before(P, p) => /\ IsRawForm(NodeAt(tree, p))
                                    /\ IsPath(input, p)
                                    /\ NodeAt(tree, p) = NodeAt(input, p)

C19_Witness ==
    /\ phase = "raised"
    /\ error = "SubParserError"
    /\ NodeAt(tree, log[Len(log)].path).children = << >>
    /\ \E p, q \in NowikiPaths(tree) :
          /\ Before(p, log[Len(log)].path) /\ ~IsRawForm(NodeAt(tree, p))
          /\ Before(log[Len(log)].path, q) /\ IsRawForm(NodeAt(tree, q))


\* ------------------------------------------------------------------- C13
NeedsWiki == {n_run, n_index, n_backup, n_dump_html}
CreatesWiki == {n_new_wiki, n_sample, n_restore, n_import}
PrintedError == \E k \in 1..Len(last.out) : last.out[k] \in ErrorMessages

\* C13: in any sequence of menu commands, run, index, backup and dump-html
\* invoked while no wiki exists print an error and start no subprocess, and
\* new-wiki, sample, restore and import invoked while a wiki exists print an
\* error, start no subprocess and leave the existing wiki as it was; this
\* for either spelling of a command's name.
C13_OutOfSequenceRejected ==
    /\ (last.cmd \in NeedsWiki /\ ~last.existed) =>
          (PrintedError /\ last.started = << >>)
    /\ (last.cmd \in CreatesWiki /\ last.existed) =>
          (PrintedError /\ last.started = << >> /\ WikiOf(fs) = last.before)

\* new_wiki, typed with the underscore, was run on an installed checkout that
\* already held a wiki with content, and make_wiki refused
C13_Witness ==
    /\ last.cmd = n_new_wiki
    /\ last.typed = Some(n_new_wiki)
    /\ last.activated
    /\ last.existed
    /\ last.before.content # "none"
    /\ last.out = <<MsgCreatingEmpty, MsgWikiExists>>
    /\ last.started = << >>

\* dump-html, typed with the dash, was tried on an installed checkout after
\* del-all had removed the wiki
C13_WitnessNoWiki ==
    /\ last.cmd = n_dump_html
    /\ last.typed = Some(replace(n_dump_html, s_underscore, s_dash))
    /\ last.activated
    /\ ~last.existed
    /\ JUST_IN_CASE_BACKUP \in fs.files
    /\ last.out = <<MsgDumpNoWiki>>

====
